---- MODULE Spec2Model ----
(***************************************************************************)
(* The two icon scripts of the repository, scripts/fix_icon.py             *)
(* (add_padding) and scripts/fix_icon_aggressive.py (shrink_content).      *)
(* Each is one synchronous function that reads the image file at a path,   *)
(* shrinks it, pastes it centred on a transparent canvas of the original   *)
(* size and writes the canvas back to the same path.                       *)
(*                                                                         *)
(* State: the file at the path, and what the last call did (its locals,    *)
(* the steps it executed, what it printed, the exception that escaped).    *)
(* One action per function; a call is atomic because the functions are     *)
(* single-threaded and never suspend.                                      *)
(*                                                                         *)
(* Python floats are IEEE-754 doubles.  A double in [0,1] is modelled      *)
(* exactly, as a record [one, frac]: its value is 1 if one, and otherwise  *)
(* the binary fraction 0.frac[1]frac[2]...  All roundings are              *)
(* round-to-nearest, ties-to-even, to Precision significant bits.          *)
(***************************************************************************)
EXTENDS Integers, Sequences, FiniteSets, TLC

VARIABLES
    fs,        \* the file at image_path
    before,    \* the file at image_path when the last call started
    script,    \* the function last called ("none" before the first call)
    arg,       \* the ratio argument of the last call, as written by the caller
    loc,       \* the local variables of the last call
    trace,     \* the steps the last call executed, in order
    raisedAt,  \* the step of the last call that raised ("none" if none did)
    out,       \* what the last call printed, in order
    escaped,   \* TRUE iff an exception left the last call
    prev,      \* the call before the last one: its function, argument, outcome
    runs       \* number of calls made so far

vars == <<fs, before, script, arg, loc, trace, raisedAt, out, escaped, prev, runs>>

----------------------------------------------------------------------------
(* Bounds of the model *)

\* images of every size up to MaxDim x MaxDim
MaxDim == 3

\* number of calls in one behaviour
MaxRuns == 2

\* sizes beyond MaxDim: the 1024 x 1024 icon, and sizes on which the double
\* product width * ratio falls just below an integer
BigSizes == {<<1024, 1024>>, <<30, 20>>}

\* ratio arguments as the caller writes them: decimal literals num/den
Literals == {<<35, 100>>, <<1, 2>>, <<9, 10>>, <<1, 1>>}

----------------------------------------------------------------------------
(* IEEE-754 double arithmetic on [0,1] *)

Precision == 53

Ones(s) == {i \in 1..Len(s) : s[i] = 1}

Zeros(s) == {i \in 1..Len(s) : s[i] = 0}

Largest(S) == CHOOSE i \in S : \A j \in S : j <= i

Smallest(S) == CHOOSE i \in S : \A j \in S : i <= j

\* s + one unit in its last place
Inc(s) ==
    IF Zeros(s) = {} THEN [carry |-> 1, frac |-> [i \in 1..Len(s) |-> 0]]
    ELSE LET j == Largest(Zeros(s))
         IN  [carry |-> 0,
              frac |-> [i \in 1..Len(s) |->
                          IF i < j THEN s[i] ELSE IF i = j THEN 1 ELSE 0]]

\* the fraction s rounded to K fraction bits, ties to even
RoundFrac(s, K) ==
    IF Len(s) <= K THEN [carry |-> 0, frac |-> s]
    ELSE LET kept == SubSeq(s, 1, K)
             sticky == \E i \in (K + 2)..Len(s) : s[i] = 1
             up == s[K + 1] = 1 /\ (sticky \/ kept[K] = 1)
         IN  IF up THEN Inc(kept) ELSE [carry |-> 0, frac |-> kept]

\* the fraction s rounded to Precision significant bits
RoundSig(s) ==
    IF Ones(s) = {} THEN [carry |-> 0, frac |-> s]
    ELSE RoundFrac(s, Smallest(Ones(s)) + Precision - 1)

RECURSIVE Pow2(_)
Pow2(k) == IF k = 0 THEN 1 ELSE 2 * Pow2(k - 1)

\* 2^k modulo m, by repeated squaring
RECURSIVE Pow2Mod(_, _)
Pow2Mod(k, m) ==
    IF k = 0 THEN 1 % m
    ELSE LET h == Pow2Mod(k \div 2, m)
         IN  (h * h * (IF k % 2 = 1 THEN 2 ELSE 1)) % m

\* what is left of num/den after k bits of its binary expansion
RemAfter(num, den, k) == (num * Pow2Mod(k, den)) % den

\* the first n bits of the binary expansion of num/den (num < den)
Expand(num, den, n) ==
    [i \in 1..n |-> IF 2 * RemAfter(num, den, i - 1) >= den THEN 1 ELSE 0]

\* position of the first 1 in the expansion of num/den (0 < num < den)
RECURSIVE LeadPos(_, _)
LeadPos(num, den) == IF 2 * num >= den THEN 1 ELSE 1 + LeadPos(2 * num, den)

\* the double a decimal literal num/den evaluates to
Dbl(num, den) ==
    IF num = den THEN [one |-> TRUE, frac |-> << >>]
    ELSE IF num = 0 THEN [one |-> FALSE, frac |-> << >>]
    ELSE LET n == LeadPos(num, den) + Precision
             r == RoundSig(Expand(num, den, n)
                           \o <<IF RemAfter(num, den, n) = 0 THEN 0 ELSE 1>>)
         IN  [one |-> r.carry = 1, frac |-> r.frac]

\* the double 1.0 - d
Complement(d) ==
    IF d.one THEN [one |-> FALSE, frac |-> << >>]
    ELSE IF Ones(d.frac) = {} THEN [one |-> TRUE, frac |-> << >>]
    ELSE LET j == Largest(Ones(d.frac))
             neg == [i \in 1..Len(d.frac) |->
                       IF i < j THEN 1 - d.frac[i] ELSE IF i = j THEN 1 ELSE 0]
             r == RoundSig(neg)
         IN  [one |-> r.carry = 1, frac |-> r.frac]

Bit(s, i) == IF i <= Len(s) THEN s[i] ELSE 0

\* the j-th group of eight bits of s, as a number
ByteOf(s, j) ==
    LET o == 8 * (j - 1)
    IN  128 * Bit(s, o + 1) + 64 * Bit(s, o + 2) + 32 * Bit(s, o + 3)
        + 16 * Bit(s, o + 4) + 8 * Bit(s, o + 5) + 4 * Bit(s, o + 6)
        + 2 * Bit(s, o + 7) + Bit(s, o + 8)

\* the carry of n * 0.s into the j-th group of eight bits
RECURSIVE CarryInto(_, _, _)
CarryInto(n, s, j) ==
    IF 8 * j >= Len(s) THEN 0
    ELSE (n * ByteOf(s, j + 1) + CarryInto(n, s, j + 1)) \div 256

\* the exact product n * 0.s, integer part and fraction
MulExact(n, s) ==
    [int |-> (n * ByteOf(s, 1) + CarryInto(n, s, 1)) \div 256,
     frac |-> [i \in 1..Len(s) |->
                 LET j == (i + 7) \div 8
                     v == (n * ByteOf(s, j) + CarryInto(n, s, j)) % 256
                 IN  (v \div Pow2(8 * j - i)) % 2]]

RECURSIVE BitLen(_)
BitLen(n) == IF n = 0 THEN 0 ELSE 1 + BitLen(n \div 2)

\* int(n * d): the double product of the integer n and the double d, truncated
MulTrunc(n, d) ==
    IF d.one THEN n
    ELSE LET p == MulExact(n, d.frac)
             r == IF p.int = 0 THEN RoundSig(p.frac)
                  ELSE RoundFrac(p.frac, Precision - BitLen(p.int))
         IN  p.int + r.carry

----------------------------------------------------------------------------
(* Files and images *)

\* An image: its size, the bounding box <<x0, y0, x1, y1>> (half-open) of the
\* pixels that may have alpha > 0, every pixel outside it having alpha = 0,
\* and the width and height (cw, ch, rationals <<num, den>>) that the
\* artwork of the file first given to the scripts occupies in it.
EmptyBox == <<0, 0, 0, 0>>

BoxEmpty(b) == b[1] >= b[3] \/ b[2] >= b[4]

FullBox(w, h) == <<0, 0, w, h>>

NoImage == [w |-> 0, h |-> 0, box |-> EmptyBox, cw |-> <<0, 1>>, ch |-> <<0, 1>>]

Absent == [kind |-> "absent", img |-> NoImage]

Garbage == [kind |-> "garbage", img |-> NoImage]

\* what a save that fails while writing leaves at the path
Partial == [kind |-> "partial", img |-> NoImage]

ImageFile(i) == [kind |-> "image", img |-> i]

Pristine(w, h) ==
    [w |-> w, h |-> h, box |-> FullBox(w, h), cw |-> <<w, 1>>, ch |-> <<h, 1>>]

ImageSizes == ((1..MaxDim) \X (1..MaxDim)) \cup BigSizes

InitialFiles == {Absent, Garbage} \cup {ImageFile(Pristine(s[1], s[2])) : s \in ImageSizes}

Min(a, b) == IF a <= b THEN a ELSE b

Max(a, b) == IF a >= b THEN a ELSE b

RECURSIVE Gcd(_, _)
Gcd(a, b) == IF b = 0 THEN a ELSE Gcd(b, a % b)

\* the rational q * a / b in lowest terms
Scale(q, a, b) ==
    LET n == q[1] * a
        d == q[2] * b
        g == Gcd(n, d)
    IN  <<n \div g, d \div g>>

\* alpha of pixel (i, j) may be non-zero
MayShow(i, px, py) ==
    /\ i.box[1] <= px /\ px < i.box[3]
    /\ i.box[2] <= py /\ py < i.box[4]

----------------------------------------------------------------------------
(* The library calls the scripts make *)

\* a variant of Exists in which the existence check is missing
ExistsUnchecked(file) == TRUE

\* os.path.exists(image_path)
Exists(file) == file.kind # "absent"

\* Image.open(image_path).convert("RGBA") raises on a file that is no image
Decodable(file) == file.kind = "image"

\* img.resize((new_w, new_h), LANCZOS) raises ValueError unless both are > 0
ResizeRaises(new_w, new_h) == new_w < 1 \/ new_h < 1

\* a variant of Resize that crops the image to its content before scaling it
ResizeCropped(i, new_w, new_h) ==
    [w |-> new_w, h |-> new_h,
     box |-> IF BoxEmpty(i.box) THEN EmptyBox ELSE FullBox(new_w, new_h),
     cw |-> <<new_w, 1>>,
     ch |-> <<new_h, 1>>]

\* img.resize((new_w, new_h), LANCZOS): the whole image scaled to new_w x new_h
\* (a copy when the size does not change); resampling may spread alpha over
\* every pixel of the result
Resize(i, new_w, new_h) ==
    IF new_w = i.w /\ new_h = i.h THEN i
    ELSE [w |-> new_w, h |-> new_h,
          box |-> IF BoxEmpty(i.box) THEN EmptyBox ELSE FullBox(new_w, new_h),
          cw |-> Scale(i.cw, new_w, i.w),
          ch |-> Scale(i.ch, new_h, i.h)]

\* Image.new("RGBA", (width, height), (0, 0, 0, alpha))
NewImage(width, height, alpha) ==
    [w |-> width, h |-> height,
     box |-> IF alpha = 0 THEN EmptyBox ELSE FullBox(width, height),
     cw |-> <<0, 1>>, ch |-> <<0, 1>>]

\* the bounding box of two boxes
BoxUnion(a, b) ==
    IF BoxEmpty(a) THEN b
    ELSE IF BoxEmpty(b) THEN a
    ELSE <<Min(a[1], b[1]), Min(a[2], b[2]), Max(a[3], b[3]), Max(a[4], b[4])>>

\* the box b moved by (x, y) and clipped to a w x h image
BoxAt(b, x, y, w, h) ==
    LET m == <<Max(0, x + b[1]), Max(0, y + b[2]), Min(w, x + b[3]), Min(h, y + b[4])>>
    IN  IF BoxEmpty(b) \/ BoxEmpty(m) THEN EmptyBox ELSE m

\* canvas.paste(src, (x, y), src): src blended over canvas at (x, y) with its
\* own alpha as the mask; pixels outside src's rectangle are not touched
Paste(canvas, src, x, y) ==
    [canvas EXCEPT
        !.box = BoxUnion(canvas.box, BoxAt(src.box, x, y, canvas.w, canvas.h)),
        !.cw = IF BoxEmpty(canvas.box) THEN src.cw ELSE <<canvas.w, 1>>,
        !.ch = IF BoxEmpty(canvas.box) THEN src.ch ELSE <<canvas.h, 1>>]

\* new_img.save(image_path): fails before the file is opened for writing
\* (file untouched), fails while writing (file truncated), or succeeds
Save(file, canvas, fault) ==
    IF fault = "save_open" THEN file
    ELSE IF fault = "save_write" THEN Partial
    ELSE ImageFile(canvas)

\* the library call at which the environment makes a call fail, if any
Faults == {"none", "exists", "open", "resize", "new", "paste", "save_open", "save_write"}

----------------------------------------------------------------------------
(* The arguments callers pass *)

\* padding_ratio = p, a literal in [0, 1)
PaddingArgs == {[form |-> "literal", num |-> l[1], den |-> l[2]] :
                  l \in {m \in Literals : m[1] < m[2]}}

\* scale_factor = s, a literal in (0, 1], or scale_factor = 1 - p
ScaleArgs ==
    {[form |-> "literal", num |-> l[1], den |-> l[2]] :
        l \in {m \in Literals : m[1] > 0}}
    \cup {[form |-> "one_minus", num |-> l[1], den |-> l[2]] :
            l \in {m \in Literals : m[1] < m[2]}}

\* the double the caller's expression evaluates to
Evaluate(a) ==
    IF a.form = "literal" THEN Dbl(a.num, a.den) ELSE Complement(Dbl(a.num, a.den))

ArgValues == [a \in PaddingArgs \cup ScaleArgs |-> Evaluate(a)]

ArgValue(a) == ArgValues[a]

\* the doubles and the integers the scripts multiply; the products are
\* evaluated once
ArgDoubles == {ArgValues[a] : a \in PaddingArgs \cup ScaleArgs}

Complements == [d \in ArgDoubles |-> Complement(d)]

FSub1(d) == IF d \in DOMAIN Complements THEN Complements[d] ELSE Complement(d)

Doubles == ArgDoubles \cup {Complements[d] : d \in ArgDoubles}

Integers100 == {s[1] : s \in ImageSizes} \cup {s[2] : s \in ImageSizes} \cup {100}

Products == [n \in Integers100, d \in Doubles |-> MulTrunc(n, d)]

FMulInt(n, d) ==
    IF <<n, d>> \in DOMAIN Products THEN Products[n, d] ELSE MulTrunc(n, d)

----------------------------------------------------------------------------
(* What a call leaves behind *)

\* a local variable that was never assigned
Unbound == 0 - 1

NoLocals ==
    [width |-> Unbound, height |-> Unbound, new_w |-> Unbound, new_h |-> Unbound,
     x |-> Unbound, y |-> Unbound]

Msg(kind, n) == [kind |-> kind, n |-> n]

\* the state in which the body of a call stops: the file, the locals, the
\* steps executed (the last one raised iff raisedAt names it), the output
Outcome(file, l, tr, ra, o) ==
    [fs |-> file, loc |-> l, trace |-> tr, raisedAt |-> ra, out |-> o,
     escaped |-> ra # "none"]

----------------------------------------------------------------------------
(* scripts/fix_icon.py *)

\* a variant of add_padding_ratio that takes the padding for the size
add_padding_ratio_unsubtracted(padding_ratio) == padding_ratio

\* target_size_ratio = 1.0 - padding_ratio
add_padding_ratio(padding_ratio) == FSub1(padding_ratio)

\* new_w = int(width * target_size_ratio), and the same for new_h
add_padding_new_size(size, target_size_ratio) == FMulInt(size, target_size_ratio)

\* a variant of add_padding_canvas with width and height exchanged
add_padding_canvas_transposed(width, height) == NewImage(height, width, 0)

\* new_img = Image.new("RGBA", (width, height), (0, 0, 0, 0))
add_padding_canvas(width, height) == NewImage(width, height, 0)

\* a variant of add_padding_offset that does not halve the margin
add_padding_offset_unhalved(size, new_size) == size - new_size

\* x = (width - new_w) // 2, and the same for y
add_padding_offset(size, new_size) == (size - new_size) \div 2

\* a variant of add_padding_save that prints the success message first
add_padding_save_announced(file, new_img, fault, r, target_size_ratio) ==
    [r EXCEPT !.fs = Save(file, new_img, fault),
              !.trace = @ \o <<"print_success", "save">>,
              !.out = Append(@, Msg("Success", FMulInt(100, target_size_ratio))),
              !.raisedAt = IF fault \in {"save_open", "save_write"} THEN "save" ELSE "none",
              !.escaped = fault \in {"save_open", "save_write"}]

\* new_img.save(image_path), then
\* print(f"Success! Scaled content to {int(target_size_ratio*100)}% of original size.")
\* r is the call so far
add_padding_save(file, new_img, fault, r, target_size_ratio) ==
    IF fault \in {"save_open", "save_write"}
    THEN [r EXCEPT !.fs = Save(file, new_img, fault),
                   !.trace = Append(@, "save"),
                   !.raisedAt = "save",
                   !.escaped = TRUE]
    ELSE [r EXCEPT !.fs = Save(file, new_img, fault),
                   !.trace = @ \o <<"save", "print_success">>,
                   !.out = Append(@, Msg("Success", FMulInt(100, target_size_ratio)))]

\* the body of the try statement
add_padding_try(file, padding_ratio, fault) ==
    IF fault = "exists"
    THEN Outcome(file, NoLocals, <<"exists">>, "exists", << >>)
    ELSE IF ~Exists(file)
    THEN Outcome(file, NoLocals, <<"exists", "print_not_found">>, "none",
                 <<Msg("File not found", 0)>>)
    ELSE IF fault = "open" \/ ~Decodable(file)
    THEN Outcome(file, NoLocals, <<"exists", "print_processing", "open">>, "open",
                 <<Msg("Processing", 0)>>)
    ELSE
    LET img == file.img
        width == img.w
        height == img.h
        target_size_ratio == add_padding_ratio(padding_ratio)
        new_w == add_padding_new_size(width, target_size_ratio)
        new_h == add_padding_new_size(height, target_size_ratio)
        l1 == [NoLocals EXCEPT !.width = width, !.height = height,
                               !.new_w = new_w, !.new_h = new_h]
        t1 == <<"exists", "print_processing", "open", "resize">>
    IN
    IF fault = "resize" \/ ResizeRaises(new_w, new_h)
    THEN Outcome(file, l1, t1, "resize", <<Msg("Processing", 0)>>)
    ELSE IF fault = "new"
    THEN Outcome(file, l1, Append(t1, "new"), "new", <<Msg("Processing", 0)>>)
    ELSE
    LET img_resized == Resize(img, new_w, new_h)
        new_img == add_padding_canvas(width, height)
        x == add_padding_offset(width, new_w)
        y == add_padding_offset(height, new_h)
        l2 == [l1 EXCEPT !.x = x, !.y = y]
        t2 == t1 \o <<"new", "paste">>
    IN
    IF fault = "paste"
    THEN Outcome(file, l2, t2, "paste", <<Msg("Processing", 0)>>)
    ELSE add_padding_save(file, Paste(new_img, img_resized, x, y), fault,
                     Outcome(file, l2, t2, "none", <<Msg("Processing", 0)>>),
                     target_size_ratio)

\* a variant of add_padding_except that swallows the exception silently
add_padding_except_silent(r) == [r EXCEPT !.escaped = FALSE]

\* except Exception as e: print(f"Error: {e}")
add_padding_except(r) ==
    IF r.raisedAt = "none" THEN r
    ELSE [r EXCEPT !.trace = Append(@, "print_error"),
                   !.out = Append(@, Msg("Error", 0)),
                   !.escaped = FALSE]

add_padding(file, padding_ratio, fault) ==
    add_padding_except(add_padding_try(file, padding_ratio, fault))

----------------------------------------------------------------------------
(* scripts/fix_icon_aggressive.py *)

\* a variant of shrink_content_new_size that rounds up
shrink_content_new_size_ceil(size, scale_factor) == FMulInt(size, scale_factor) + 1

\* new_w = int(width * scale_factor), and the same for new_h
shrink_content_new_size(size, scale_factor) == FMulInt(size, scale_factor)

\* a variant of shrink_content_canvas whose canvas is opaque
shrink_content_canvas_opaque(width, height) == NewImage(width, height, 255)

\* new_img = Image.new("RGBA", (width, height), (0, 0, 0, 0))
shrink_content_canvas(width, height) == NewImage(width, height, 0)

\* x = (width - new_w) // 2, and the same for y
shrink_content_offset(size, new_size) == (size - new_size) \div 2

\* new_img.save(image_path), then
\* print(f"Success! Scaled content to {int(scale_factor*100)}% of original size.")
\* r is the call so far
shrink_content_save(file, new_img, fault, r, scale_factor) ==
    IF fault \in {"save_open", "save_write"}
    THEN [r EXCEPT !.fs = Save(file, new_img, fault),
                   !.trace = Append(@, "save"),
                   !.raisedAt = "save",
                   !.escaped = TRUE]
    ELSE [r EXCEPT !.fs = Save(file, new_img, fault),
                   !.trace = @ \o <<"save", "print_success">>,
                   !.out = Append(@, Msg("Success", FMulInt(100, scale_factor)))]

\* the body of the try statement
shrink_content_try(file, scale_factor, fault) ==
    IF fault = "exists"
    THEN Outcome(file, NoLocals, <<"exists">>, "exists", << >>)
    ELSE IF ~Exists(file)
    THEN Outcome(file, NoLocals, <<"exists", "print_not_found">>, "none",
                 <<Msg("File not found", 0)>>)
    ELSE IF fault = "open" \/ ~Decodable(file)
    THEN Outcome(file, NoLocals, <<"exists", "print_processing", "open">>, "open",
                 <<Msg("Processing with scale", 0)>>)
    ELSE
    LET img == file.img
        width == img.w
        height == img.h
        new_w == shrink_content_new_size(width, scale_factor)
        new_h == shrink_content_new_size(height, scale_factor)
        l1 == [NoLocals EXCEPT !.width = width, !.height = height,
                               !.new_w = new_w, !.new_h = new_h]
        t1 == <<"exists", "print_processing", "open", "resize">>
    IN
    IF fault = "resize" \/ ResizeRaises(new_w, new_h)
    THEN Outcome(file, l1, t1, "resize", <<Msg("Processing with scale", 0)>>)
    ELSE IF fault = "new"
    THEN Outcome(file, l1, Append(t1, "new"), "new", <<Msg("Processing with scale", 0)>>)
    ELSE
    LET img_resized == Resize(img, new_w, new_h)
        new_img == shrink_content_canvas(width, height)
        x == shrink_content_offset(width, new_w)
        y == shrink_content_offset(height, new_h)
        l2 == [l1 EXCEPT !.x = x, !.y = y]
        t2 == t1 \o <<"new", "paste">>
    IN
    IF fault = "paste"
    THEN Outcome(file, l2, t2, "paste", <<Msg("Processing with scale", 0)>>)
    ELSE shrink_content_save(file, Paste(new_img, img_resized, x, y), fault,
                     Outcome(file, l2, t2, "none", <<Msg("Processing with scale", 0)>>),
                     scale_factor)

\* a variant of shrink_content_except without the handler
shrink_content_except_missing(r) == r

\* except Exception as e: print(f"Error: {e}")
shrink_content_except(r) ==
    IF r.raisedAt = "none" THEN r
    ELSE [r EXCEPT !.trace = Append(@, "print_error"),
                   !.out = Append(@, Msg("Error", 0)),
                   !.escaped = FALSE]

shrink_content(file, scale_factor, fault) ==
    shrink_content_except(shrink_content_try(file, scale_factor, fault))

----------------------------------------------------------------------------
(* Calls *)

NoArg == [form |-> "none", num |-> 0, den |-> 1]

NoCall == [script |-> "none", arg |-> NoArg, success |-> FALSE, pristine |-> FALSE]

Succeeded == Len(out) > 0 /\ out[Len(out)].kind = "Success"

IsPristine(file) ==
    file.kind = "image" /\ file.img = Pristine(file.img.w, file.img.h)

\* the last call, as the next call remembers it
LastCall ==
    IF script = "none" THEN NoCall
    ELSE [script |-> script, arg |-> arg, success |-> Succeeded,
          pristine |-> IsPristine(before)]

----------------------------------------------------------------------------
(* The system *)

Init ==
    /\ fs \in InitialFiles
    /\ before = fs
    /\ script = "none"
    /\ arg = NoArg
    /\ loc = NoLocals
    /\ trace = << >>
    /\ raisedAt = "none"
    /\ out = << >>
    /\ escaped = FALSE
    /\ prev = NoCall
    /\ runs = 0

Record(name, a, r) ==
    /\ before' = fs
    /\ script' = name
    /\ arg' = a
    /\ fs' = r.fs
    /\ loc' = r.loc
    /\ trace' = r.trace
    /\ raisedAt' = r.raisedAt
    /\ out' = r.out
    /\ escaped' = r.escaped
    /\ prev' = LastCall
    /\ runs' = runs + 1

\* python scripts/fix_icon.py, with any padding ratio
CallAddPadding ==
    /\ runs < MaxRuns
    /\ \E a \in PaddingArgs, fault \in Faults :
          Record("add_padding", a, add_padding(fs, ArgValue(a), fault))

\* python scripts/fix_icon_aggressive.py, with any scale factor
CallShrinkContent ==
    /\ runs < MaxRuns
    /\ \E a \in ScaleArgs, fault \in Faults :
          Record("shrink_content", a, shrink_content(fs, ArgValue(a), fault))

Next == CallAddPadding \/ CallShrinkContent

Spec == Init /\ [][Next]_vars

----------------------------------------------------------------------------
(* Vocabulary of the properties *)

Called == script # "none"

Ran(step) == \E i \in 1..Len(trace) : trace[i] = step

Completed(step) == Ran(step) /\ raisedAt # step

Printed(kind) == \E i \in 1..Len(out) : out[i].kind = kind

\* the ratio r of the last call as a rational <<num, den>>: scale_factor, or
\* 1 - padding_ratio
Ratio ==
    IF script = "add_padding" \/ arg.form = "one_minus"
    THEN <<arg.den - arg.num, arg.den>>
    ELSE <<arg.num, arg.den>>

\* floor(n * q) for a rational q
Floor(n, q) == (n * q[1]) \div q[2]

IsWhole(n, q) == (n * q[1]) % q[2] = 0

W == before.img.w

H == before.img.h

\* the rectangle the last call pasted into
PastedBox == <<loc.x, loc.y, loc.x + loc.new_w, loc.y + loc.new_h>>

Inside(px, py, b) == b[1] <= px /\ px < b[3] /\ b[2] <= py /\ py < b[4]

\* the coordinates of an axis of length n that the properties quantify over:
\* all of them, or on a long axis those next to its ends and next to the ends
\* a and b of the pasted rectangle (an image's visible region is a box)
Coords(n, a, b) ==
    IF n <= 32 THEN 0..(n - 1)
    ELSE {c \in {0, 1, a - 1, a, a + 1, b - 1, b, b + 1, n - 2, n - 1} : 0 <= c /\ c < n}

----------------------------------------------------------------------------
(* C1 *)

\* C1 as stated: after a call on an existing, decodable W x H image the file
\* at the path is a W x H image, whether the call succeeded or aborted.
C1_SizeAlwaysKept ==
    (Called /\ before.kind = "image")
        => (fs.kind = "image" /\ fs.img.w = W /\ fs.img.h = H)

\* C1 amended: after a call on an existing, decodable W x H image the file is
\* a W x H image if the call succeeded, and is the very file it was if the
\* call aborted before the save step; a call that aborts in the save step
\* leaves either the file it found or a truncated file.
C1_SizeKeptUnlessSaveFails ==
    (Called /\ before.kind = "image")
        => /\ Succeeded => (fs.kind = "image" /\ fs.img.w = W /\ fs.img.h = H)
           /\ (~Succeeded /\ raisedAt # "save") => fs = before
           /\ raisedAt = "save" => fs \in {before, Partial}

C1_Witness ==
    /\ Called /\ before.kind = "image" /\ Succeeded
    /\ W # H /\ loc.new_w < W
    /\ fs.img.w = W /\ fs.img.h = H /\ fs # before

----------------------------------------------------------------------------
(* C2 *)

\* C2 as stated: every call that decodes a W x H image resizes it to exactly
\* floor(W*r) x floor(H*r), and the library accepts that size.
C2_ResizedToFloor ==
    (Called /\ Ran("resize"))
        => /\ loc.new_w = Floor(W, Ratio)
           /\ loc.new_h = Floor(H, Ratio)
           /\ ~ResizeRaises(loc.new_w, loc.new_h)

\* C2 amended: the size asked of resize is (int(W*r), int(H*r)) with the
\* products taken in double precision: floor(W*r), or one less when W*r is a
\* whole number that the doubles fall short of.  When both are >= 1 the
\* content written for an image that fills its canvas occupies exactly that
\* size; when one of them is 0 resize
\* raises, an error is printed and the file is left as it was.  The
\* 1024 x 1024 icon at ratio 0.65 is resized to 665 x 665 and pasted at
\* (179, 179).
C2_ResizedToTruncatedProduct ==
    (Called /\ Ran("resize"))
        => /\ loc.new_w \in {Floor(W, Ratio), Floor(W, Ratio) - 1}
           /\ loc.new_h \in {Floor(H, Ratio), Floor(H, Ratio) - 1}
           /\ ~IsWhole(W, Ratio) => loc.new_w = Floor(W, Ratio)
           /\ ~IsWhole(H, Ratio) => loc.new_h = Floor(H, Ratio)
           /\ ResizeRaises(loc.new_w, loc.new_h)
                => (raisedAt = "resize" /\ fs = before /\ Printed("Error"))
           /\ (Succeeded /\ before.img.box = FullBox(W, H))
                => /\ fs.img.box[3] - fs.img.box[1] = loc.new_w
                   /\ fs.img.box[4] - fs.img.box[2] = loc.new_h
           /\ (W = 1024 /\ H = 1024 /\ Ratio = <<65, 100>>)
                => /\ loc.new_w = 665 /\ loc.new_h = 665
                   /\ Ran("paste") => (loc.x = 179 /\ loc.y = 179)

C2_Witness ==
    /\ Called /\ Succeeded
    /\ W = 1024 /\ H = 1024 /\ Ratio = <<65, 100>>
    /\ loc.new_w = 665 /\ loc.x = 179
    /\ fs.img.box = <<179, 179, 844, 844>>

----------------------------------------------------------------------------
(* C3 *)

\* C3 as stated: the paste offset is (floor((W - floor(W*r))/2),
\* floor((H - floor(H*r))/2)), the rectangle of floor(W*r) x floor(H*r) at
\* that offset lies inside the canvas, and on each axis the margin after the
\* content exceeds the margin before it by 0 or 1.
C3_OffsetFromFloor ==
    (Called /\ Ran("paste"))
        => LET fw == Floor(W, Ratio)
               fh == Floor(H, Ratio)
           IN  /\ loc.x = (W - fw) \div 2
               /\ loc.y = (H - fh) \div 2
               /\ 0 <= loc.x /\ loc.x + fw <= W
               /\ 0 <= loc.y /\ loc.y + fh <= H
               /\ (W - fw - loc.x) - loc.x \in {0, 1}
               /\ (H - fh - loc.y) - loc.y \in {0, 1}

\* C3 amended: with new_w = int(W*r) and new_h = int(H*r) as the call
\* computed them (see C2), the paste offset is (floor((W - new_w)/2),
\* floor((H - new_h)/2)), the pasted rectangle lies inside the canvas, on each
\* axis the margin after the content exceeds the margin before it by 0 or 1,
\* and the content written for an image that fills its canvas is that
\* rectangle.
C3_OffsetCentred ==
    (Called /\ Ran("paste"))
        => /\ 2 * loc.x <= W - loc.new_w /\ W - loc.new_w < 2 * loc.x + 2
           /\ 2 * loc.y <= H - loc.new_h /\ H - loc.new_h < 2 * loc.y + 2
           /\ 0 <= loc.x /\ loc.x + loc.new_w <= W
           /\ 0 <= loc.y /\ loc.y + loc.new_h <= H
           /\ (W - loc.new_w - loc.x) - loc.x \in {0, 1}
           /\ (H - loc.new_h - loc.y) - loc.y \in {0, 1}
           /\ (Succeeded /\ before.img.box = FullBox(W, H)) => fs.img.box = PastedBox

C3_Witness ==
    /\ Called /\ Succeeded
    /\ (W - loc.new_w) % 2 = 1 /\ (H - loc.new_h) % 2 = 0
    /\ loc.x > 0 /\ loc.y > 0
    /\ fs.img.box = PastedBox

----------------------------------------------------------------------------
(* C4 *)

\* C4: after a successful call every pixel of the written image outside the
\* pasted rectangle has alpha 0, whatever the input image was.
C4_TransparentOutside ==
    (Called /\ Succeeded)
        => /\ fs.kind = "image"
           /\ \A px \in Coords(fs.img.w, loc.x, loc.x + loc.new_w) :
                \A py \in Coords(fs.img.h, loc.y, loc.y + loc.new_h) :
                    ~Inside(px, py, PastedBox) => ~MayShow(fs.img, px, py)

C4_Witness ==
    /\ Called /\ Succeeded
    /\ ~BoxEmpty(before.img.box) /\ before.img.box = FullBox(W, H)
    /\ loc.x > 0 /\ loc.y > 0
    /\ MayShow(fs.img, loc.x, loc.y)
    /\ ~MayShow(fs.img, loc.x - 1, loc.y) /\ ~MayShow(fs.img, 0, 0)

----------------------------------------------------------------------------
(* C5 *)

\* C5: a call on a path at which there is no file prints the file-not-found
\* message and returns, decoding nothing and leaving the path without a file.
C5_MissingFileIsNoOp ==
    (Called /\ before.kind = "absent" /\ Completed("exists"))
        => /\ out = <<Msg("File not found", 0)>>
           /\ trace = <<"exists", "print_not_found">>
           /\ ~escaped
           /\ fs = before

C5_Witness ==
    /\ Called /\ before.kind = "absent" /\ Completed("exists")
    /\ Printed("File not found") /\ fs.kind = "absent"

----------------------------------------------------------------------------
(* C6 *)

\* C6: a call on a file that exists but cannot be decoded fails in the decode
\* step, before any save: the file is left as it was, an error message is
\* printed and the call returns.
C6_UndecodableFileUntouched ==
    (Called /\ before.kind \in {"garbage", "partial"} /\ Completed("exists"))
        => /\ fs = before
           /\ raisedAt = "open"
           /\ ~Ran("save")
           /\ Printed("Error")
           /\ ~escaped

C6_Witness ==
    /\ Called /\ before.kind = "garbage" /\ raisedAt = "open"
    /\ fs.kind = "garbage" /\ Printed("Error")

----------------------------------------------------------------------------
(* C7 *)

FinalMessages == {"Success", "Error", "File not found"}

\* C7: whatever step fails, no exception leaves a call, and the call has
\* printed exactly one of the success, error and file-not-found messages,
\* as the last thing it printed.
C7_ReturnsWithOneVerdict ==
    Called
        => /\ ~escaped
           /\ Cardinality({i \in 1..Len(out) : out[i].kind \in FinalMessages}) = 1
           /\ out[Len(out)].kind \in FinalMessages
           /\ Printed("Error") <=> raisedAt # "none"

C7_Witness ==
    /\ Called /\ raisedAt = "paste" /\ ~escaped
    /\ Printed("Error") /\ ~Printed("Success")

----------------------------------------------------------------------------
(* C8 *)

\* the last two calls were successful calls of the same function with the
\* same ratio, the first of them on a file never treated before
TwiceTheSame ==
    /\ runs >= 2 /\ Succeeded
    /\ prev.success /\ prev.pristine
    /\ prev.script = script /\ prev.arg = arg

\* a rational is less than an integer
Less(q, n) == q[1] < n * q[2]

\* C8 as stated: the second of two applications with the same ratio leaves a
\* W x H file whose content extends over floor(floor(W*r)*r) x
\* floor(floor(H*r)*r), and the file differs from what the first left.
C8_SecondShrinksToFloorOfFloor ==
    TwiceTheSame
        => /\ fs.img.w = W /\ fs.img.h = H
           /\ fs.img.cw = <<Floor(Floor(W, Ratio), Ratio), 1>>
           /\ fs.img.ch = <<Floor(Floor(H, Ratio), Ratio), 1>>
           /\ fs # before

\* C8 amended: the second of two applications with the same ratio rescales
\* the whole W x H canvas, border included, to new_w x new_h again: it leaves
\* a W x H file whose content extends over new_w^2/W x new_h^2/H.  That is
\* smaller than the new_w x new_h the first application left, and the file
\* differs from the first result, exactly when new_w < W or new_h < H; with
\* new_w = W and new_h = H (ratio 1) the content keeps its extent.
C8_SecondRescalesCanvas ==
    TwiceTheSame
        => /\ fs.img.w = W /\ fs.img.h = H
           /\ before.img.cw = <<loc.new_w, 1>> /\ before.img.ch = <<loc.new_h, 1>>
           /\ fs.img.cw = Scale(<<loc.new_w, 1>>, loc.new_w, W)
           /\ fs.img.ch = Scale(<<loc.new_h, 1>>, loc.new_h, H)
           /\ loc.new_w < W => (Less(fs.img.cw, loc.new_w) /\ fs # before)
           /\ loc.new_h < H => (Less(fs.img.ch, loc.new_h) /\ fs # before)
           /\ (loc.new_w = W /\ loc.new_h = H)
                => (fs.img.cw = <<W, 1>> /\ fs.img.ch = <<H, 1>>)

C8_Witness ==
    /\ TwiceTheSame
    /\ W = 1024 /\ Ratio = <<65, 100>>
    /\ before.img.cw = <<665, 1>>
    /\ fs.img.cw = <<442225, 1024>>
    /\ Floor(Floor(W, Ratio), Ratio) = 432

----------------------------------------------------------------------------
(* C9 *)

\* what C9 compares: the steps, the locals, the failing step and the file
Effect(r) ==
    [fs |-> r.fs, loc |-> r.loc, trace |-> r.trace, raisedAt |-> r.raisedAt,
     escaped |-> r.escaped]

Current ==
    [fs |-> fs, loc |-> loc, trace |-> trace, raisedAt |-> raisedAt,
     escaped |-> escaped]

\* C9: add_padding with padding_ratio = p and shrink_content with
\* scale_factor = 1 - p, started on the same file and failing (if at all) at
\* the same library call, execute the same steps with the same sizes and
\* offsets and leave the same file.
C9_SameTransform ==
    /\ (Called /\ script = "add_padding")
          => \E f \in Faults :
                Current = Effect(shrink_content(before, FSub1(ArgValue(arg)), f))
    /\ (Called /\ script = "shrink_content" /\ arg.form = "one_minus")
          => \E f \in Faults :
                Current = Effect(add_padding(before, Dbl(arg.num, arg.den), f))

C9_Witness ==
    /\ Called /\ script = "add_padding" /\ Succeeded
    /\ loc.new_w < W /\ loc.new_w # FMulInt(W, ArgValue(arg))
    /\ Current = Effect(shrink_content(before, FSub1(ArgValue(arg)), "none"))

----------------------------------------------------------------------------
(* C10 *)

\* the place of a step in the order of the source
Rank(step) ==
    CASE step = "exists" -> 1
      [] step = "print_not_found" -> 2
      [] step = "print_processing" -> 2
      [] step = "open" -> 3
      [] step = "resize" -> 4
      [] step = "new" -> 5
      [] step = "paste" -> 6
      [] step = "save" -> 7
      [] step = "print_success" -> 8
      [] step = "print_error" -> 9

\* C10: the steps of a call occur in the order existence check, decode,
\* resize, composite, save, success message, each at most once; save runs only
\* after decode, resize and paste have completed; the file changes only in
\* the save step; and the success message is printed only after save has
\* completed, when the file is the new W x H canvas.
C10_FixedOrder ==
    Called
        => /\ \A i, j \in 1..Len(trace) : i < j => Rank(trace[i]) < Rank(trace[j])
           /\ Ran("save")
                => (Completed("open") /\ Completed("resize") /\ Completed("paste"))
           /\ fs # before => Ran("save")
           /\ Printed("Success")
                => /\ Completed("save")
                   /\ trace[Len(trace)] = "print_success"
                   /\ fs.kind = "image" /\ fs.img.w = W /\ fs.img.h = H
                   /\ fs.img.box = BoxAt(Resize(before.img, loc.new_w, loc.new_h).box,
                                         loc.x, loc.y, W, H)

C10_Witness ==
    /\ Called /\ Printed("Success") /\ Completed("save")
    /\ fs # before /\ Len(trace) = 8

====
